---- MODULE Spec2Model ----
(***************************************************************************)
(* A model of the feed-forward network engine (node.cpp, layer.cpp,        *)
(* neural_network.cpp).                                                    *)
(*                                                                         *)
(* Numbers.  A C++ float is modelled as a fixed-point integer counting     *)
(* units of 1/Scale (1.0f is Scale); products are truncated towards zero.  *)
(* The loss is the one float that can leave the finite range (log(0)), so   *)
(* it is modelled as an extended value: finite, +inf, -inf or NaN.          *)
(*                                                                         *)
(* Pointers.  A shared_ptr<Node> is the pair <<layer id, node index>>; a    *)
(* shared_ptr<Layer> is a record whose field null says whether it is empty. *)
(* Inside a network the layer ids are the chain positions: 0 is the input   *)
(* layer, 1..H the hidden layers, H+1 the output layer.                     *)
(***************************************************************************)
EXTENDS Integers, Sequences, FiniteSets, TLC

VARIABLES
    nn,       \* the NeuralNetwork object (layers, diagnostics fields)
    built,    \* "none" before a constructor ran, "ok", or "invalid_argument"
    gen,      \* state of the process-wide static mt19937
    last,     \* the last call: its name, arguments, thrown condition, result
    trained,  \* samples trained so far (bounds the exploration)
    layer,    \* a stand-alone layer object: its kind and the layer itself
    run       \* the train call in flight: its locals, where it is, its history

vars == <<nn, built, gen, last, trained, layer, run>>

-----------------------------------------------------------------------------
(* Bounds of the exploration *)

\* the constructor arguments tried range from -1 up to these
MaxInputSize == 2
MaxOutputSize == 2
MaxHiddenLayerCount == 2
MaxHiddenLayerSize == 2
\* samples trained in one run of the network, over all train calls
MaxTrained == 2
\* batchSize arguments tried: 1..MaxBatchSize
MaxBatchSize == 2
\* node counts of stand-alone layers: -1..MaxLayerNodes
MaxLayerNodes == 2
\* width in bits of the size_t the index arithmetic of train is modelled with
SizeTBits == 4

-----------------------------------------------------------------------------
(* Fixed-point floats *)

Scale == 10000

Abs(x) == IF x < 0 THEN -x ELSE x

Sign(x) == IF x < 0 THEN -1 ELSE 1

Max(a, b) == IF a >= b THEN a ELSE b

Min(a, b) == IF a <= b THEN a ELSE b

\* F applied to the value of v, v evaluated once (a sequence point)
Bind(v, F(_)) == CHOOSE r \in {F(x) : x \in {v}} : TRUE

\* integer division, rounding towards zero as C++ does
TDiv(n, d) == Sign(n) * Sign(d) * (Abs(n) \div Abs(d))

\* a * b on floats: |a|*|b|/Scale computed without a wide intermediate
FMul(a, b) ==
    LET x == Max(Abs(a), Abs(b))
        y == Min(Abs(a), Abs(b))
        q == x \div Scale
        r == x % Scale
    IN  Sign(a) * Sign(b) * (q * y + ((r * y) \div Scale))

\* sigmoid(k) for k = 0..9, in units of 1/Scale
SigmoidTable == <<5000, 7311, 8808, 9526, 9820, 9933, 9975, 9991, 9997, 9999>>

\* 1/(1+exp(-v)) for v >= 0, strictly between 0 and 1
SigmoidPos(v) ==
    LET k == v \div Scale
        f == v % Scale
    IN  IF k >= 9 THEN Scale - 1
        ELSE SigmoidTable[k + 1]
             + ((SigmoidTable[k + 2] - SigmoidTable[k + 1]) * f) \div Scale

\* 1.0f / (1.0f + exp(-v)) in float arithmetic: exactly 1 once exp(-v) is
\* below half an ulp of 1 (v >= 24 ln 2 = 16.64), exactly 0 once exp(-v)
\* overflows to +inf (v <= -88.73), strictly inside (0,1) otherwise
SigmoidF(v) ==
    IF v >= 166400 THEN Scale
    ELSE IF v <= -887300 THEN 0
    ELSE IF v >= 0 THEN SigmoidPos(v)
    ELSE Max(1, Scale - SigmoidPos(-v))

\* leaky ReLU: (value > 0) ? value : 0.01f * value
ReluF(v) == IF v > 0 THEN v ELSE FMul(Scale \div 100, v)

\* (value > 0) ? 1.0f : 0.01f
ReluDerivativeF(v) == IF v > 0 THEN Scale ELSE Scale \div 100

-----------------------------------------------------------------------------
(* Extended floats: the values a float expression with log can take *)

Fin(n) == [k |-> "fin", v |-> n]

PosInf == [k |-> "inf", v |-> 1]

NegInf == [k |-> "inf", v |-> -1]

NaN == [k |-> "nan", v |-> 0]

IsFinite(x) == x.k = "fin"

LnArgs == <<1, 2, 5, 10, 20, 50, 100, 200, 500, 1000, 2000, 3000, 4000,
            5000, 6000, 7000, 8000, 9000, 10000>>

LnVals == <<-92103, -85172, -76009, -69078, -62146, -52983, -46052, -39120,
            -29957, -23026, -16094, -12040, -9163, -6931, -5108, -3567,
            -2231, -1054, 0>>

\* ln(a/Scale)*Scale for 1 <= a <= Scale, interpolated between table points
LnFixed(a) ==
    LET i == CHOOSE j \in 1..(Len(LnArgs) - 1) :
                 LnArgs[j] <= a /\ (a < LnArgs[j + 1] \/ j = Len(LnArgs) - 1)
    IN  LnVals[i] + ((LnVals[i + 1] - LnVals[i]) * (a - LnArgs[i]))
                    \div (LnArgs[i + 1] - LnArgs[i])

\* log(x): -inf at 0, NaN below 0
LogF(a) ==
    IF a < 0 THEN NaN
    ELSE IF a = 0 THEN NegInf
    ELSE IF a >= Scale THEN Fin(TDiv((a - Scale) * Scale, a))
    ELSE Fin(LnFixed(a))

\* float e times extended x (0 * inf is NaN)
EMul(e, x) ==
    IF x.k = "nan" THEN NaN
    ELSE IF x.k = "inf"
         THEN IF e = 0 THEN NaN ELSE [k |-> "inf", v |-> Sign(e) * x.v]
    ELSE Fin(FMul(e, x.v))

ENeg(x) == IF x.k = "nan" THEN NaN ELSE [k |-> x.k, v |-> -x.v]

\* x + y (inf + -inf is NaN)
EAdd(x, y) ==
    IF x.k = "nan" \/ y.k = "nan" THEN NaN
    ELSE IF x.k = "inf" /\ y.k = "inf"
         THEN IF x.v = y.v THEN x ELSE NaN
    ELSE IF x.k = "inf" THEN x
    ELSE IF y.k = "inf" THEN y
    ELSE Fin(x.v + y.v)

ESub(x, y) == EAdd(x, ENeg(y))

\* x / n for a positive count n
EDivN(x, n) == IF x.k = "fin" THEN Fin(TDiv(x.v, n)) ELSE x

-----------------------------------------------------------------------------
(* The static generator behind generateRandomNormalizedValues *)

\* the stream of uniform draws from [-0.5, 0.5), in units of 1/Scale
RandTable == <<4500, -3000, 4900, 1200, -5000, 4800, -700, 2500>>

\* the k-th draw (k = 1, 2, ...) of a generator in state g
Draw(g, k) == RandTable[((g + k - 2) % Len(RandTable)) + 1]

\* the generator's state after n draws
Advance(g, n) == ((g + n - 1) % Len(RandTable)) + 1

-----------------------------------------------------------------------------
(* Nodes and edges *)

\* Node::Node(float value, float bias): delta starts at 0
NewNode(value, bias) == [value |-> value, bias |-> bias, delta |-> 0]

\* Edge::Edge(sourceNode, targetNode, weight)
NewEdge(sourceNode, targetNode, weight) ==
    [sourceNode |-> sourceNode, targetNode |-> targetNode, weight |-> weight]

\* Node::addBias
AddBias(node) == [node EXCEPT !.value = node.value + node.bias]

\* Node::relu
Relu(node) == [node EXCEPT !.value = ReluF(node.value)]

\* Node::sigmoid
Sigmoid(node) == [node EXCEPT !.value = SigmoidF(node.value)]

\* Node::reluDerivative
ReluDerivative(node) == ReluDerivativeF(node.value)

\* (a slip: the delta zeroed together with the value)
ResetAll(node) == [node EXCEPT !.value = 0, !.delta = 0]

\* Node::reset
Reset(node) == [node EXCEPT !.value = 0]

-----------------------------------------------------------------------------
(* Layers *)

\* an empty shared_ptr<Layer>
NullLayer == [null |-> TRUE, id |-> -1, nodes |-> <<>>, edges |-> <<>>]

\* Layer::initializeNodes: nodeCount nodes, each with a drawn bias
InitializeNodes(nodeCount, g) ==
    [nodes |-> [i \in 1..nodeCount |-> NewNode(0, Draw(g, i))],
     gen |-> Advance(g, nodeCount)]

\* InputLayer::initializeNodes: nodeCount nodes without a drawn bias
InputInitializeNodes(nodeCount) == [i \in 1..nodeCount |-> NewNode(0, 0)]

\* InputLayer::InputLayer(nodeCount)
NewInputLayer(id, nodeCount) ==
    IF nodeCount <= 0
    THEN [err |-> "invalid_argument", layer |-> NullLayer]
    ELSE [err |-> "none",
          layer |-> [null |-> FALSE, id |-> id,
                     nodes |-> InputInitializeNodes(nodeCount), edges |-> <<>>]]

\* HiddenLayer::HiddenLayer(nodeCount)
NewHiddenLayer(id, nodeCount, g) ==
    IF nodeCount <= 0
    THEN [err |-> "invalid_argument", layer |-> NullLayer, gen |-> g]
    ELSE LET r == InitializeNodes(nodeCount, g)
         IN  [err |-> "none",
              layer |-> [null |-> FALSE, id |-> id,
                         nodes |-> r.nodes, edges |-> <<>>],
              gen |-> r.gen]

\* OutputLayer::OutputLayer(nodeCount): an output layer owns no edges
NewOutputLayer(id, nodeCount, g) ==
    IF nodeCount <= 0
    THEN [err |-> "invalid_argument",
          layer |-> [null |-> TRUE, id |-> -1, nodes |-> <<>>], gen |-> g]
    ELSE LET r == InitializeNodes(nodeCount, g)
         IN  [err |-> "none",
              layer |-> [null |-> FALSE, id |-> id, nodes |-> r.nodes],
              gen |-> r.gen]

\* (a slip: the edges not cleared before the new ones are pushed)
InitializeEdgesAppending(this, nextLayer, g) ==
    IF nextLayer.null \/ nextLayer.nodes = <<>>
    THEN [err |-> "invalid_argument", layer |-> this, gen |-> g]
    ELSE LET n == Len(this.nodes)
             m == Len(nextLayer.nodes)
         IN  [err |-> "none",
              layer |-> [this EXCEPT !.edges = @ \o
                  [k \in 1..(n * m) |->
                      NewEdge(<<this.id, ((k - 1) \div m) + 1>>,
                              <<nextLayer.id, ((k - 1) % m) + 1>>,
                              Draw(g, k))]],
              gen |-> Advance(g, n * m)]

\* (a slip: every edge wired to the next layer's first node)
InitializeEdgesOneTarget(this, nextLayer, g) ==
    IF nextLayer.null \/ nextLayer.nodes = <<>>
    THEN [err |-> "invalid_argument", layer |-> this, gen |-> g]
    ELSE LET n == Len(this.nodes)
             m == Len(nextLayer.nodes)
         IN  [err |-> "none",
              layer |-> [this EXCEPT !.edges =
                  [k \in 1..(n * m) |->
                      NewEdge(<<this.id, ((k - 1) \div m) + 1>>,
                              <<nextLayer.id, 1>>,
                              Draw(g, k))]],
              gen |-> Advance(g, n * m)]

\* InputLayer::initializeEdges / HiddenLayer::initializeEdges (the two bodies
\* are the same): throws before touching the edges when nextLayer is empty
\* or has no nodes, else clears the edges and pushes one edge per
\* (source, target) pair, sources outermost, each with a drawn weight
InitializeEdges(this, nextLayer, g) ==
    IF nextLayer.null \/ nextLayer.nodes = <<>>
    THEN [err |-> "invalid_argument", layer |-> this, gen |-> g]
    ELSE LET n == Len(this.nodes)
             m == Len(nextLayer.nodes)
         IN  [err |-> "none",
              layer |-> [this EXCEPT !.edges =
                  [k \in 1..(n * m) |->
                      NewEdge(<<this.id, ((k - 1) \div m) + 1>>,
                              <<nextLayer.id, ((k - 1) % m) + 1>>,
                              Draw(g, k))]],
              gen |-> Advance(g, n * m)]

\* InputLayer::attachLayer / HiddenLayer::attachLayer
AttachLayer(this, nextLayer, g) == InitializeEdges(this, nextLayer, g)

\* Layer::resetValues
ResetValues(l) == [l EXCEPT !.nodes = [i \in 1..Len(l.nodes) |-> Reset(l.nodes[i])]]

\* Layer::getNodeCount
GetNodeCount(l) == Len(l.nodes)

-----------------------------------------------------------------------------
(* The network: construction *)

\* an empty shared_ptr<OutputLayer>
NullOutputLayer == [null |-> TRUE, id |-> -1, nodes |-> <<>>]

\* the members of a NeuralNetwork before its constructor body has run
NoNetwork ==
    [inputLayer |-> NullLayer, hiddenLayers |-> <<>>,
     outputLayer |-> NullOutputLayer, deltaHistory |-> <<>>,
     trackDeltas |-> FALSE, currentEpoch |-> 0, currentSample |-> 0]

\* (a slip: the factor 2 of the default width left out)
CalculateHiddenLayerSizeThird(inputSize, outputSize) ==
    Max(1, TDiv(inputSize + outputSize, 3))

\* NeuralNetwork::calculateHiddenLayerSize: max(1, (in + out) * 2 / 3)
CalculateHiddenLayerSize(inputSize, outputSize) ==
    Max(1, TDiv((inputSize + outputSize) * 2, 3))

\* hiddenLayers[i].attachLayer(hiddenLayers[i + 1]) for i, i+1, ...: the loop
\* of createConnections; stops at the first throw
RECURSIVE AttachHiddenLayers(_, _, _)
AttachHiddenLayers(net, i, g) ==
    IF i > Len(net.hiddenLayers) - 1
    THEN [err |-> "none", nn |-> net, gen |-> g]
    ELSE Bind(AttachLayer(net.hiddenLayers[i], net.hiddenLayers[i + 1], g),
              LAMBDA r :
                  IF r.err /= "none"
                  THEN [err |-> r.err, nn |-> net, gen |-> r.gen]
                  ELSE AttachHiddenLayers(
                           [net EXCEPT !.hiddenLayers[i] = r.layer], i + 1, r.gen))

\* NeuralNetwork::createConnections
CreateConnections(net, g) ==
    IF net.inputLayer.null \/ net.outputLayer.null
    THEN [err |-> "runtime_error", nn |-> net, gen |-> g]
    ELSE IF net.hiddenLayers = <<>>
    THEN Bind(AttachLayer(net.inputLayer, net.outputLayer, g),
              LAMBDA r : [err |-> r.err,
                          nn |-> [net EXCEPT !.inputLayer = r.layer],
                          gen |-> r.gen])
    ELSE Bind(AttachLayer(net.inputLayer, net.hiddenLayers[1], g),
              LAMBDA r1 :
        IF r1.err /= "none"
        THEN [err |-> r1.err, nn |-> net, gen |-> r1.gen]
        ELSE Bind(AttachHiddenLayers([net EXCEPT !.inputLayer = r1.layer], 1, r1.gen),
                  LAMBDA r2 :
            IF r2.err /= "none" THEN r2
            ELSE Bind(AttachLayer(r2.nn.hiddenLayers[Len(net.hiddenLayers)],
                                  r2.nn.outputLayer, r2.gen),
                      LAMBDA r3 :
                [err |-> r3.err,
                 nn |-> IF r3.err /= "none" THEN r2.nn
                        ELSE [r2.nn EXCEPT
                                 !.hiddenLayers[Len(net.hiddenLayers)] = r3.layer],
                 gen |-> r3.gen])))

\* hiddenLayers.push_back(make_shared<HiddenLayer>(hiddenSize)), count times
RECURSIVE PushHiddenLayers(_, _, _, _)
PushHiddenLayers(layers, count, hiddenSize, g) ==
    IF Len(layers) >= count
    THEN [err |-> "none", layers |-> layers, gen |-> g]
    ELSE Bind(NewHiddenLayer(Len(layers) + 1, hiddenSize, g),
              LAMBDA r :
                  IF r.err /= "none"
                  THEN [err |-> r.err, layers |-> layers, gen |-> r.gen]
                  ELSE PushHiddenLayers(Append(layers, r.layer), count,
                                        hiddenSize, r.gen))

\* the body both constructors share once the dimensions are accepted: input
\* layer, output layer, hidden layers, connections, diagnostics fields.  A
\* throw anywhere leaves no object
BuildNetwork(inputSize, outputSize, hiddenLayerCount, hiddenSize, g) ==
    Bind(NewInputLayer(0, inputSize), LAMBDA i :
      IF i.err /= "none" THEN [err |-> i.err, nn |-> NoNetwork, gen |-> g]
      ELSE Bind(NewOutputLayer(hiddenLayerCount + 1, outputSize, g), LAMBDA o :
        IF o.err /= "none" THEN [err |-> o.err, nn |-> NoNetwork, gen |-> o.gen]
        ELSE Bind(PushHiddenLayers(<<>>, hiddenLayerCount, hiddenSize, o.gen),
                  LAMBDA h :
          IF h.err /= "none" THEN [err |-> h.err, nn |-> NoNetwork, gen |-> h.gen]
          ELSE Bind(CreateConnections(
                        [NoNetwork EXCEPT !.inputLayer = i.layer,
                                          !.outputLayer = o.layer,
                                          !.hiddenLayers = h.layers], h.gen),
                    LAMBDA c :
            IF c.err /= "none" THEN [err |-> c.err, nn |-> NoNetwork, gen |-> c.gen]
            ELSE [err |-> "none",
                  nn |-> [c.nn EXCEPT !.trackDeltas = FALSE,
                                      !.currentEpoch = 0,
                                      !.currentSample = 0],
                  gen |-> c.gen]))))

\* NeuralNetwork::NeuralNetwork(inputSize, outputSize, hiddenLayerCount)
NeuralNetwork3(inputSize, outputSize, hiddenLayerCount, g) ==
    IF inputSize <= 0 \/ outputSize <= 0 \/ hiddenLayerCount < 0
    THEN [err |-> "invalid_argument", nn |-> NoNetwork, gen |-> g]
    ELSE BuildNetwork(inputSize, outputSize, hiddenLayerCount,
                      CalculateHiddenLayerSize(inputSize, outputSize), g)

\* (a slip: hiddenLayerSize not validated)
NeuralNetwork4NoSizeCheck(inputSize, outputSize, hiddenLayerCount, hiddenLayerSize, g) ==
    IF inputSize <= 0 \/ outputSize <= 0 \/ hiddenLayerCount < 0
    THEN [err |-> "invalid_argument", nn |-> NoNetwork, gen |-> g]
    ELSE BuildNetwork(inputSize, outputSize, hiddenLayerCount,
                      hiddenLayerSize, g)

\* NeuralNetwork::NeuralNetwork(inputSize, outputSize, hiddenLayerCount,
\* hiddenLayerSize)
NeuralNetwork4(inputSize, outputSize, hiddenLayerCount, hiddenLayerSize, g) ==
    IF inputSize <= 0 \/ outputSize <= 0 \/ hiddenLayerCount < 0
       \/ hiddenLayerSize <= 0
    THEN [err |-> "invalid_argument", nn |-> NoNetwork, gen |-> g]
    ELSE BuildNetwork(inputSize, outputSize, hiddenLayerCount,
                      hiddenLayerSize, g)

\* getInputSize / getOutputSize / getHiddenLayerCount
GetInputSize(net) ==
    IF net.inputLayer.null THEN 0 ELSE GetNodeCount(net.inputLayer)

GetOutputSize(net) ==
    IF net.outputLayer.null THEN 0 ELSE GetNodeCount(net.outputLayer)

GetHiddenLayerCount(net) == Len(net.hiddenLayers)

-----------------------------------------------------------------------------
(* The network: node access through shared_ptr<Node> *)

\* *p for a node pointer p = <<layer id, index>>
NodeAt(net, p) ==
    IF p[1] = 0 THEN net.inputLayer.nodes[p[2]]
    ELSE IF p[1] <= Len(net.hiddenLayers) THEN net.hiddenLayers[p[1]].nodes[p[2]]
    ELSE net.outputLayer.nodes[p[2]]

\* p->value += x
AddToValue(net, p, x) ==
    IF p[1] = 0
    THEN [net EXCEPT !.inputLayer.nodes[p[2]].value = @ + x]
    ELSE IF p[1] <= Len(net.hiddenLayers)
    THEN [net EXCEPT !.hiddenLayers[p[1]].nodes[p[2]].value = @ + x]
    ELSE [net EXCEPT !.outputLayer.nodes[p[2]].value = @ + x]

\* p->delta = d
SetDelta(net, p, d) ==
    IF p[1] = 0
    THEN [net EXCEPT !.inputLayer.nodes[p[2]].delta = d]
    ELSE IF p[1] <= Len(net.hiddenLayers)
    THEN [net EXCEPT !.hiddenLayers[p[1]].nodes[p[2]].delta = d]
    ELSE [net EXCEPT !.outputLayer.nodes[p[2]].delta = d]

-----------------------------------------------------------------------------
(* The network: forward pass *)

\* (a slip: only the input layer reset)
ResetNetworkInputOnly(net) ==
    [net EXCEPT !.inputLayer = IF @.null THEN @ ELSE ResetValues(@)]

\* NeuralNetwork::resetNetwork
ResetNetwork(net) ==
    [net EXCEPT
        !.inputLayer = IF @.null THEN @ ELSE ResetValues(@),
        !.hiddenLayers = [l \in 1..Len(@) |->
                             IF @[l].null THEN @[l] ELSE ResetValues(@[l])],
        !.outputLayer = IF @.null THEN @ ELSE ResetValues(@)]

\* (a slip: a vector of the wrong length truncated or zero-padded)
SetInputValuesTruncating(l, values) ==
    [err |-> "none",
     layer |-> [l EXCEPT !.nodes =
         [i \in 1..Len(l.nodes) |->
             [l.nodes[i] EXCEPT !.value =
                 IF i <= Len(values) THEN values[i] ELSE 0]]]]

\* InputLayer::setInputValues: throws on a length mismatch, else copies
SetInputValues(l, values) ==
    IF Len(values) /= Len(l.nodes)
    THEN [err |-> "invalid_argument", layer |-> l]
    ELSE [err |-> "none",
          layer |-> [l EXCEPT !.nodes =
              [i \in 1..Len(l.nodes) |-> [l.nodes[i] EXCEPT !.value = values[i]]]]]

\* (a slip: the loop over the edges stops one edge early)
RECURSIVE PropagateEdgesButLast(_, _, _)
PropagateEdgesButLast(net, edges, k) ==
    IF k >= Len(edges) THEN net
    ELSE Bind(AddToValue(net, edges[k].targetNode,
                         FMul(NodeAt(net, edges[k].sourceNode).value,
                              edges[k].weight)),
              LAMBDA a : PropagateEdgesButLast(a, edges, k + 1))

\* for (edge : edges) edge->targetNode->value += edge->sourceNode->value *
\* edge->weight, from edge k on
RECURSIVE PropagateEdges(_, _, _)
PropagateEdges(net, edges, k) ==
    IF k > Len(edges) THEN net
    ELSE Bind(AddToValue(net, edges[k].targetNode,
                         FMul(NodeAt(net, edges[k].sourceNode).value,
                              edges[k].weight)),
              LAMBDA a : PropagateEdges(a, edges, k + 1))

\* InputLayer::forward
InputForward(net) == PropagateEdges(net, net.inputLayer.edges, 1)

\* HiddenLayer::processNodes: addBias then relu on every node
HiddenProcessNodes(l) ==
    [l EXCEPT !.nodes = [i \in 1..Len(l.nodes) |-> Relu(AddBias(l.nodes[i]))]]

\* HiddenLayer::forward of hidden layer l: processNodes, then the edges
HiddenForward(net, l) ==
    Bind([net EXCEPT !.hiddenLayers[l] = HiddenProcessNodes(@)],
         LAMBDA a : PropagateEdges(a, a.hiddenLayers[l].edges, 1))

\* for (hiddenLayer : hiddenLayers) hiddenLayer->forward(), from layer l on
RECURSIVE HiddenForwardFrom(_, _)
HiddenForwardFrom(net, l) ==
    IF l > Len(net.hiddenLayers) THEN net
    ELSE Bind(HiddenForward(net, l), LAMBDA a : HiddenForwardFrom(a, l + 1))

\* OutputLayer::processNodes: addBias then sigmoid on every node
OutputProcessNodes(l) ==
    [l EXCEPT !.nodes = [i \in 1..Len(l.nodes) |-> Sigmoid(AddBias(l.nodes[i]))]]

\* OutputLayer::getOutput: processNodes, then the values
GetOutput(net) ==
    Bind([net EXCEPT !.outputLayer = OutputProcessNodes(@)],
         LAMBDA a :
             [nn |-> a,
              out |-> [i \in 1..Len(a.outputLayer.nodes) |->
                          a.outputLayer.nodes[i].value]])

\* NeuralNetwork::forward: the reset runs before the inputs are validated
Forward(net, inputs) ==
    IF net.inputLayer.null \/ net.outputLayer.null
    THEN [err |-> "runtime_error", nn |-> net, out |-> <<>>]
    ELSE Bind(ResetNetwork(net), LAMBDA a :
           Bind(SetInputValues(a.inputLayer, inputs), LAMBDA s :
             IF s.err /= "none"
             THEN [err |-> s.err, nn |-> a, out |-> <<>>]
             ELSE Bind(InputForward([a EXCEPT !.inputLayer = s.layer]), LAMBDA b :
                    Bind(HiddenForwardFrom(b, 1), LAMBDA c :
                      Bind(GetOutput(c), LAMBDA o :
                        [err |-> "none", nn |-> o.nn, out |-> o.out])))))

-----------------------------------------------------------------------------
(* The network: loss *)

\* totalLoss after the loop body ran for outputs i, i+1, ...:
\* totalLoss -= expected[i]*log(actual) + (1 - expected[i])*log(1 - actual)
RECURSIVE LossFrom(_, _, _, _)
LossFrom(net, expected, i, totalLoss) ==
    IF i > Len(expected) THEN totalLoss
    ELSE LET actual == net.outputLayer.nodes[i].value
         IN  LossFrom(net, expected, i + 1,
                 ESub(totalLoss,
                      EAdd(EMul(expected[i], LogF(actual)),
                           EMul(Scale - expected[i], LogF(Scale - actual)))))

\* NeuralNetwork::calculateLoss: no clamp of actual before the logarithms
CalculateLoss(net, expected) ==
    IF Len(expected) /= Len(net.outputLayer.nodes)
    THEN [err |-> "invalid_argument", loss |-> NaN]
    ELSE [err |-> "none",
          loss |-> EDivN(LossFrom(net, expected, 1, Fin(0)), Len(expected))]

-----------------------------------------------------------------------------
(* The network: backward pass and gradient application *)

\* the learning rate train passes to backpropagate, 0.001f
LearningRate == Scale \div 1000

\* (a slip: the test edge->sourceNode == node left out)
RECURSIVE SumOutgoingAllSources(_, _, _, _, _)
SumOutgoingAllSources(net, edges, p, k, sum) ==
    IF k > Len(edges) THEN sum
    ELSE SumOutgoingAllSources(net, edges, p, k + 1,
             sum + FMul(edges[k].weight, NodeAt(net, edges[k].targetNode).delta))

\* sum += edge->weight * edge->targetNode->delta over the edges k, k+1, ...
\* whose sourceNode is p
RECURSIVE SumOutgoing(_, _, _, _, _)
SumOutgoing(net, edges, p, k, sum) ==
    IF k > Len(edges) THEN sum
    ELSE SumOutgoing(net, edges, p, k + 1,
             IF edges[k].sourceNode = p
             THEN sum + FMul(edges[k].weight, NodeAt(net, edges[k].targetNode).delta)
             ELSE sum)

\* outputLayer->nodes[i]->delta = value - expected[i], for i, i+1, ...
RECURSIVE OutputDeltasFrom(_, _, _)
OutputDeltasFrom(net, expected, i) ==
    IF i > Len(net.outputLayer.nodes) THEN net
    ELSE Bind(SetDelta(net, <<net.outputLayer.id, i>>,
                       net.outputLayer.nodes[i].value - expected[i]),
              LAMBDA a : OutputDeltasFrom(a, expected, i + 1))

\* the node loop of hidden layer l, from node i on:
\* node->delta = sum * node->reluDerivative()
RECURSIVE HiddenDeltasFrom(_, _, _)
HiddenDeltasFrom(net, l, i) ==
    IF i > Len(net.hiddenLayers[l].nodes) THEN net
    ELSE Bind(SetDelta(net, <<net.hiddenLayers[l].id, i>>,
                  FMul(SumOutgoing(net, net.hiddenLayers[l].edges,
                                   <<net.hiddenLayers[l].id, i>>, 1, 0),
                       ReluDerivative(net.hiddenLayers[l].nodes[i]))),
              LAMBDA a : HiddenDeltasFrom(a, l, i + 1))

\* for (l = hiddenLayers.size(); l-- > 0;): layers l, l-1, ..., 1
RECURSIVE HiddenLayersDeltas(_, _)
HiddenLayersDeltas(net, l) ==
    IF l < 1 THEN net
    ELSE Bind(HiddenDeltasFrom(net, l, 1), LAMBDA a : HiddenLayersDeltas(a, l - 1))

\* the node loop of the input layer, from node i on: node->delta = sum
RECURSIVE InputDeltasFrom(_, _)
InputDeltasFrom(net, i) ==
    IF i > Len(net.inputLayer.nodes) THEN net
    ELSE Bind(SetDelta(net, <<net.inputLayer.id, i>>,
                  SumOutgoing(net, net.inputLayer.edges,
                              <<net.inputLayer.id, i>>, 1, 0)),
              LAMBDA a : InputDeltasFrom(a, i + 1))

\* (a slip: the source's value left out of the weight update)
UpdateEdgesWithoutSource(net, edges, learningRate) ==
    [k \in 1..Len(edges) |->
        [edges[k] EXCEPT !.weight =
            @ - FMul(learningRate, NodeAt(net, edges[k].targetNode).delta)]]

\* edge->weight -= learningRate * edge->sourceNode->value *
\* edge->targetNode->delta, for every edge of the layer
UpdateEdges(net, edges, learningRate) ==
    [k \in 1..Len(edges) |->
        [edges[k] EXCEPT !.weight =
            @ - FMul(FMul(learningRate, NodeAt(net, edges[k].sourceNode).value),
                     NodeAt(net, edges[k].targetNode).delta)]]

\* node->bias -= learningRate * node->delta, for every node of the layer
UpdateBiases(nodes, learningRate) ==
    [i \in 1..Len(nodes) |->
        [nodes[i] EXCEPT !.bias = @ - FMul(learningRate, nodes[i].delta)]]

\* NeuralNetwork::updateLayer(shared_ptr<InputLayer>): edges, then the input
\* nodes' biases as well
UpdateInputLayer(net, learningRate) ==
    [net EXCEPT !.inputLayer =
        [@ EXCEPT !.edges = UpdateEdges(net, net.inputLayer.edges, learningRate),
                  !.nodes = UpdateBiases(net.inputLayer.nodes, learningRate)]]

\* NeuralNetwork::updateLayer(shared_ptr<HiddenLayer>) on hidden layer l
UpdateHiddenLayer(net, l, learningRate) ==
    [net EXCEPT !.hiddenLayers[l] =
        [@ EXCEPT !.edges = UpdateEdges(net, net.hiddenLayers[l].edges, learningRate),
                  !.nodes = UpdateBiases(net.hiddenLayers[l].nodes, learningRate)]]

\* NeuralNetwork::updateLayer(shared_ptr<OutputLayer>)
UpdateOutputLayer(net, learningRate) ==
    [net EXCEPT !.outputLayer.nodes =
        UpdateBiases(net.outputLayer.nodes, learningRate)]

\* for (hiddenLayer : hiddenLayers) updateLayer(hiddenLayer), from layer l on
RECURSIVE UpdateHiddenLayersFrom(_, _, _)
UpdateHiddenLayersFrom(net, l, learningRate) ==
    IF l > Len(net.hiddenLayers) THEN net
    ELSE Bind(UpdateHiddenLayer(net, l, learningRate),
              LAMBDA a : UpdateHiddenLayersFrom(a, l + 1, learningRate))

\* NeuralNetwork::applyGradients: input layer, hidden layers, output layer
ApplyGradients(net, learningRate) ==
    Bind(UpdateInputLayer(net, learningRate), LAMBDA a :
      Bind(UpdateHiddenLayersFrom(a, 1, learningRate), LAMBDA b :
        UpdateOutputLayer(b, learningRate)))

\* NeuralNetwork::backpropagate: output deltas, hidden deltas from the last
\* hidden layer to the first, input deltas, then applyGradients
Backpropagate(net, expected, learningRate) ==
    Bind(OutputDeltasFrom(net, expected, 1), LAMBDA a :
      Bind(HiddenLayersDeltas(a, Len(a.hiddenLayers)), LAMBDA b :
        Bind(InputDeltasFrom(b, 1), LAMBDA c :
          ApplyGradients(c, learningRate))))

-----------------------------------------------------------------------------
(* Diagnostics *)

\* the deltas of a layer's nodes, in order
LayerDeltas(l) == [i \in 1..Len(l.nodes) |-> l.nodes[i].delta]

\* the weights of a layer's edges, in order
LayerWeights(l) == [k \in 1..Len(l.edges) |-> l.edges[k].weight]

\* (a slip: the deltas cleared once they are logged)
CaptureDeltasClearing(net, loss) ==
    IF ~net.trackDeltas THEN net
    ELSE [net EXCEPT
             !.deltaHistory = Append(@,
                 [epoch |-> net.currentEpoch,
                  sample |-> net.currentSample,
                  loss |-> loss,
                  inputDeltas |-> LayerDeltas(net.inputLayer),
                  inputWeights |-> LayerWeights(net.inputLayer),
                  hiddenDeltas |-> [l \in 1..Len(net.hiddenLayers) |->
                                       LayerDeltas(net.hiddenLayers[l])],
                  hiddenWeights |-> [l \in 1..Len(net.hiddenLayers) |->
                                        LayerWeights(net.hiddenLayers[l])],
                  outputDeltas |-> LayerDeltas(net.outputLayer)]),
             !.currentSample = @ + 1,
             !.outputLayer.nodes =
                 [i \in 1..Len(@) |-> [@[i] EXCEPT !.delta = 0]]]

\* NeuralNetwork::captureDeltas: nothing unless tracking; else append one
\* snapshot and count the sample
CaptureDeltas(net, loss) ==
    IF ~net.trackDeltas THEN net
    ELSE LET snapshot ==
                 [epoch |-> net.currentEpoch,
                  sample |-> net.currentSample,
                  loss |-> loss,
                  inputDeltas |-> LayerDeltas(net.inputLayer),
                  inputWeights |-> LayerWeights(net.inputLayer),
                  hiddenDeltas |-> [l \in 1..Len(net.hiddenLayers) |->
                                       LayerDeltas(net.hiddenLayers[l])],
                  hiddenWeights |-> [l \in 1..Len(net.hiddenLayers) |->
                                        LayerWeights(net.hiddenLayers[l])],
                  outputDeltas |-> LayerDeltas(net.outputLayer)]
         IN  [net EXCEPT !.deltaHistory = Append(@, snapshot),
                         !.currentSample = @ + 1]

\* what is written to the file, piece by piece: a comma, a string literal,
\* a column name built from literals and indices, an int, a float
Comma == [t |-> "comma", v |-> <<>>]

Text(str) == [t |-> "text", v |-> <<str>>]

ColumnName(parts) == [t |-> "text", v |-> parts]

IntField(n) == [t |-> "int", v |-> <<n>>]

FloatField(x) == [t |-> "float", v |-> <<x>>]

\* the pieces of the rows in one row
RECURSIVE FlattenRows(_)
FlattenRows(rows) ==
    IF rows = <<>> THEN <<>> ELSE Head(rows) \o FlattenRows(Tail(rows))

\* file << prefix << i << "," for i = 0 .. n-1
HeaderColumns(prefix, suffix, n) ==
    [k \in 1..(2 * n) |->
        IF k % 2 = 1 THEN ColumnName(prefix \o <<(k - 1) \div 2>> \o suffix)
        ELSE Comma]

\* file << "," << delta for every delta
DeltaFields(deltas) ==
    [k \in 1..(2 * Len(deltas)) |->
        IF k % 2 = 1 THEN Comma ELSE FloatField(deltas[k \div 2])]

\* the header row of exportDeltasToCSV; the last literal holds a comma
ExportHeader(net) ==
    <<Text("epoch"), Comma, Text("sample"), Comma, Text("loss"), Comma>>
    \o HeaderColumns(<<"input_delta_">>, <<>>, Len(net.inputLayer.nodes))
    \o FlattenRows([l \in 1..Len(net.hiddenLayers) |->
           HeaderColumns(<<"hidden", l - 1, "_delta_">>, <<>>,
                         Len(net.hiddenLayers[l].nodes))])
    \o HeaderColumns(<<"output_delta_">>, <<>>, Len(net.outputLayer.nodes))
    \o <<Text("input_weight_0"), Comma, Text("hidden0_weight_0")>>

\* (a slip: no placeholder written for a weight sample that is missing)
ExportRowNoPlaceholder(snapshot) ==
    <<IntField(snapshot.epoch), Comma, IntField(snapshot.sample), Comma,
      FloatField(snapshot.loss)>>
    \o DeltaFields(snapshot.inputDeltas)
    \o FlattenRows([l \in 1..Len(snapshot.hiddenDeltas) |->
           DeltaFields(snapshot.hiddenDeltas[l])])
    \o DeltaFields(snapshot.outputDeltas)
    \o (IF snapshot.inputWeights /= <<>>
        THEN <<Comma, FloatField(snapshot.inputWeights[1])>>
        ELSE <<>>)
    \o (IF snapshot.hiddenWeights /= <<>> /\ snapshot.hiddenWeights[1] /= <<>>
        THEN <<Comma, FloatField(snapshot.hiddenWeights[1][1])>>
        ELSE <<>>)

\* one data row of exportDeltasToCSV
ExportRow(snapshot) ==
    <<IntField(snapshot.epoch), Comma, IntField(snapshot.sample), Comma,
      FloatField(snapshot.loss)>>
    \o DeltaFields(snapshot.inputDeltas)
    \o FlattenRows([l \in 1..Len(snapshot.hiddenDeltas) |->
           DeltaFields(snapshot.hiddenDeltas[l])])
    \o DeltaFields(snapshot.outputDeltas)
    \o (IF snapshot.inputWeights /= <<>>
        THEN <<Comma, FloatField(snapshot.inputWeights[1])>>
        ELSE <<Comma, IntField(0)>>)
    \o (IF snapshot.hiddenWeights /= <<>> /\ snapshot.hiddenWeights[1] /= <<>>
        THEN <<Comma, FloatField(snapshot.hiddenWeights[1][1])>>
        ELSE <<Comma, IntField(0)>>)

\* NeuralNetwork::exportDeltasToCSV: the rows written to the file, or
\* runtime_error when the file cannot be opened
ExportDeltasToCSV(net, isOpen) ==
    IF ~isOpen THEN [err |-> "runtime_error", file |-> <<>>]
    ELSE [err |-> "none",
          file |-> <<ExportHeader(net)>>
                   \o [k \in 1..Len(net.deltaHistory) |->
                          ExportRow(net.deltaHistory[k])]]

-----------------------------------------------------------------------------
(* Training *)

\* row[from..to], 1-based and inclusive
Slice(row, from, to) == [i \in 1..(to - from + 1) |-> row[from + i - 1]]

\* the body of train's inner loop for one row: split, forward, calculateLoss,
\* backpropagate, captureDeltas; a throw ends it where it happens
TrainSample(net, row) ==
    Bind(Forward(net, Slice(row, 1, GetInputSize(net))), LAMBDA f :
      IF f.err /= "none" THEN [err |-> f.err, nn |-> f.nn]
      ELSE Bind(Slice(row, GetInputSize(net) + 1, Len(row)), LAMBDA targets :
        Bind(CalculateLoss(f.nn, targets), LAMBDA c :
          IF c.err /= "none" THEN [err |-> c.err, nn |-> f.nn]
          ELSE Bind(Backpropagate(f.nn, targets, LearningRate), LAMBDA b :
                 [err |-> "none", nn |-> CaptureDeltas(b, c.loss)]))))

\* for (j = ...; j < end; ++j), rows 0-based
RECURSIVE TrainChunk(_, _, _, _)
TrainChunk(net, trainingData, j, end) ==
    IF j >= end THEN [err |-> "none", nn |-> net]
    ELSE Bind(TrainSample(net, trainingData[j + 1]), LAMBDA r :
           IF r.err /= "none" THEN r
           ELSE TrainChunk(r.nn, trainingData, j + 1, end))

\* (a slip: the chunk start advanced by one instead of by batchSize)
RECURSIVE TrainLoopOverlapping(_, _, _, _)
TrainLoopOverlapping(net, trainingData, batchSize, i) ==
    IF i >= Len(trainingData) THEN [err |-> "none", nn |-> net]
    ELSE Bind(TrainChunk(net, trainingData, i,
                         Min(i + batchSize, Len(trainingData))),
              LAMBDA r :
                  IF r.err /= "none" THEN r
                  ELSE TrainLoopOverlapping(r.nn, trainingData, batchSize, i + 1))

\* for (i = ...; i < trainingData.size(); i += batchSize)
RECURSIVE TrainLoop(_, _, _, _)
TrainLoop(net, trainingData, batchSize, i) ==
    IF i >= Len(trainingData) THEN [err |-> "none", nn |-> net]
    ELSE Bind(TrainChunk(net, trainingData, i,
                         Min(i + batchSize, Len(trainingData))),
              LAMBDA r :
                  IF r.err /= "none" THEN r
                  ELSE TrainLoop(r.nn, trainingData, batchSize, i + batchSize))

\* NeuralNetwork::train, for batchSize > 0
Train(net, trainingData, batchSize) ==
    Bind([net EXCEPT !.currentSample = 0],
         LAMBDA a : TrainLoop(a, trainingData, batchSize, 0))

-----------------------------------------------------------------------------
(* Arguments the callers pass *)

\* initial states of the generator (what random_device seeded)
Seeds == {1, 2}

\* networks explored: (inputSize, outputSize, hiddenLayerCount) for the
\* three-argument constructor, with hiddenLayerSize for the four-argument one
Architectures3 == {<<1, 1, 0>>, <<2, 1, 1>>}

Architectures4 == {<<1, 2, 2, 1>>}

\* feature values 40.0, -3.0, 2.0 and target values 1.0, 0.0
InputPool == <<400000, -30000, 20000>>

TargetPool == <<Scale, 0>>

Patterns == {1, 2}

InputVector(n, k) ==
    [i \in 1..n |-> InputPool[((k + i - 2) % Len(InputPool)) + 1]]

TargetVector(n, k) ==
    [i \in 1..n |-> TargetPool[((k + i - 2) % Len(TargetPool)) + 1]]

\* a well-formed training row: inputSize features, then outputSize targets
Row(net, k) ==
    InputVector(GetInputSize(net), k) \o TargetVector(GetOutputSize(net), k)

\* the sample sequences of at most n rows
PatternSeqs(n) == UNION {[1..m -> Patterns] : m \in 0..n}

\* the record of a call
Call(op, err) ==
    [op |-> op, err |-> err, args |-> <<>>, out |-> <<>>, loss |-> Fin(0)]

-----------------------------------------------------------------------------
(* A train call, statement by statement *)

\* no train call in flight.  Locals of train: trainingData, batchSize, i,
\* end, j, inputs, targets, loss; k is the position in the layer loop that
\* is running.  History of the call, written only to be observed: start
\* (the network when the call began), chunks (the (i, end) of every outer
\* iteration that holds a sample), trace (the calls made, with sample and arguments), applied
\* (layers whose processNodes ran in the forward pass under way), written
\* (nodes whose delta the backward pass under way has assigned), read (nodes
\* whose delta the last statement read)
Idle ==
    [pc |-> "idle", trainingData |-> <<>>, batchSize |-> 0,
     i |-> 0, end |-> 0, j |-> 0, k |-> 0,
     inputs |-> <<>>, targets |-> <<>>, loss |-> Fin(0),
     start |-> NoNetwork, chunks |-> <<>>, trace |-> <<>>,
     applied |-> <<>>, written |-> {}, read |-> {}]

\* size_t arithmetic: values are taken modulo 2^SizeTBits, and an int
\* converted to size_t wraps the same way
SizeTModulus == 2 ^ SizeTBits

ToSizeT(n) == ((n % SizeTModulus) + SizeTModulus) % SizeTModulus

\* size_t end = min(i + batchSize, trainingData.size())
ChunkEnd(i, batchSize, size) == Min(ToSizeT(i + ToSizeT(batchSize)), size)

\* (a slip: the outer loop advanced by one)
NextChunkByOne(i, batchSize) == ToSizeT(i + 1)

\* i += batchSize
NextChunk(i, batchSize) == ToSizeT(i + ToSizeT(batchSize))

\* for (auto &hiddenLayer : hiddenLayers): the hidden layers in the order
\* forward and applyGradients visit them
ForwardLayers(net) == [k \in 1..Len(net.hiddenLayers) |-> k]

\* (a slip: the hidden layers visited first to last in the backward pass)
BackwardLayersAscending(net) == [k \in 1..Len(net.hiddenLayers) |-> k]

\* for (size_t l = hiddenLayers.size(); l-- > 0;): the hidden layers in the
\* order backpropagate visits them
BackwardLayers(net) ==
    [k \in 1..Len(net.hiddenLayers) |-> Len(net.hiddenLayers) - k + 1]

\* the node pointers of a layer
LayerNodes(l) == {<<l.id, i>> : i \in 1..Len(l.nodes)}

\* the nodes whose delta the sums of a layer's node loop read:
\* edge->targetNode->delta for every edge whose sourceNode is a node of l
SumReads(l) ==
    {l.edges[e].targetNode :
        e \in {e \in 1..Len(l.edges) : l.edges[e].sourceNode \in LayerNodes(l)}}

\* the nodes whose delta updateLayer reads on a layer with edges:
\* edge->targetNode->delta for every edge, node->delta for every node
UpdateReads(l) ==
    {l.edges[e].targetNode : e \in 1..Len(l.edges)} \cup LayerNodes(l)

\* the record of a call made by train for sample j
Made(op, j, args) == [op |-> op, j |-> j, args |-> args]

-----------------------------------------------------------------------------
(* The network in use *)

Init ==
    /\ \E g \in Seeds :
          \/ \E a \in Architectures3 :
                \E r \in {NeuralNetwork3(a[1], a[2], a[3], g)} :
                    /\ nn = r.nn
                    /\ gen = r.gen
                    /\ last = [Call("NeuralNetwork3", r.err) EXCEPT !.args = a]
          \/ \E a \in Architectures4 :
                \E r \in {NeuralNetwork4(a[1], a[2], a[3], a[4], g)} :
                    /\ nn = r.nn
                    /\ gen = r.gen
                    /\ last = [Call("NeuralNetwork4", r.err) EXCEPT !.args = a]
    /\ built = "ok"
    /\ trained = 0
    /\ layer = [kind |-> "none", obj |-> NullLayer]
    /\ run = Idle

DoForward ==
    /\ built = "ok"
    /\ \E n \in 0..(GetInputSize(nn) + 1), k \in Patterns :
          \E inputs \in {InputVector(n, k)} :
          \E r \in {Forward(nn, inputs)} :
              /\ nn' = r.nn
              /\ last' = [Call("forward", r.err) EXCEPT !.args = inputs,
                                                        !.out = r.out]
    /\ UNCHANGED <<built, gen, trained, layer, run>>

DoCalculateLoss ==
    /\ built = "ok"
    /\ \E n \in 0..(GetOutputSize(nn) + 1), k \in Patterns :
          \E expected \in {TargetVector(n, k)} :
          \E r \in {CalculateLoss(nn, expected)} :
              last' = [Call("calculateLoss", r.err) EXCEPT !.args = expected,
                                                           !.loss = r.loss]
    /\ UNCHANGED <<nn, built, gen, trained, layer, run>>

DoTrain ==
    /\ built = "ok"
    /\ \E ks \in PatternSeqs(MaxTrained - trained), batchSize \in 1..MaxBatchSize :
          \E trainingData \in {[j \in 1..Len(ks) |-> Row(nn, ks[j])]} :
          \E r \in {Train(nn, trainingData, batchSize)} :
              /\ nn' = r.nn
              /\ last' = [Call("train", r.err) EXCEPT
                             !.args = <<trainingData, batchSize>>]
              /\ trained' = trained + Len(ks)
    /\ UNCHANGED <<built, gen, layer, run>>

DoResetNetwork ==
    /\ built = "ok"
    /\ nn' = ResetNetwork(nn)
    /\ last' = Call("resetNetwork", "none")
    /\ UNCHANGED <<built, gen, trained, layer, run>>

\* enableDeltaTracking() { trackDeltas = true; }  (explored only before the
\* first sample is trained, to keep the snapshot logs few)
EnableDeltaTracking ==
    /\ built = "ok"
    /\ trained = 0
    /\ run.pc \in {"idle", "done"}
    /\ nn' = [nn EXCEPT !.trackDeltas = TRUE]
    /\ last' = Call("enableDeltaTracking", "none")
    /\ UNCHANGED <<built, gen, trained, layer, run>>

\* disableDeltaTracking() { trackDeltas = false; }  (explored as above)
DisableDeltaTracking ==
    /\ built = "ok"
    /\ trained = 0
    /\ nn' = [nn EXCEPT !.trackDeltas = FALSE]
    /\ last' = Call("disableDeltaTracking", "none")
    /\ UNCHANGED <<built, gen, trained, layer, run>>

\* exportDeltasToCSV(filename); the call record keeps the rows written
DoExportDeltasToCSV ==
    /\ built = "ok"
    /\ \E isOpen \in BOOLEAN :
          \E r \in {ExportDeltasToCSV(nn, isOpen)} :
              last' = [Call("exportDeltasToCSV", r.err) EXCEPT !.out = r.file]
    /\ UNCHANGED <<nn, built, gen, trained, layer, run>>

Next ==
    \/ DoForward
    \/ DoCalculateLoss
    \/ DoTrain
    \/ DoResetNetwork
    \/ EnableDeltaTracking
    \/ DisableDeltaTracking
    \/ DoExportDeltasToCSV

Spec == Init /\ [][Next]_vars

-----------------------------------------------------------------------------
(* train executed statement by statement: the loops of train, the layer     *)
(* steps of forward, calculateLoss, the layer steps of backpropagate and of  *)
(* applyGradients, captureDeltas.  batchSize is any int                      *)

\* train(trainingData, batchSize) is entered: currentSample = 0, i = 0
TrainBegin ==
    /\ built = "ok"
    /\ run.pc \in {"idle", "done"}
    /\ \E ks \in PatternSeqs(MaxTrained - trained), batchSize \in -1..MaxBatchSize :
          \E trainingData \in {[j \in 1..Len(ks) |-> Row(nn, ks[j])]} :
              /\ run' = [Idle EXCEPT !.pc = "outer",
                                     !.trainingData = trainingData,
                                     !.batchSize = batchSize,
                                     !.i = 0,
                                     !.start = nn]
              /\ last' = [Call("train", "none") EXCEPT
                             !.args = <<trainingData, batchSize>>]
              /\ trained' = trained + Len(ks)
    /\ nn' = [nn EXCEPT !.currentSample = 0]
    /\ UNCHANGED <<built, gen, layer>>

\* i < trainingData.size(): the chunk's end, or the return of train
OuterLoop ==
    /\ run.pc = "outer"
    /\ IF run.i < Len(run.trainingData)
       THEN \E end \in {ChunkEnd(run.i, run.batchSize, Len(run.trainingData))} :
                run' = [run EXCEPT !.end = end,
                                   !.j = run.i,
                                   !.chunks = IF run.i < end
                                               THEN Append(@, <<run.i, end>>)
                                               ELSE @,
                                   !.pc = "inner"]
       ELSE run' = [run EXCEPT !.pc = "done"]
    /\ UNCHANGED <<nn, built, gen, last, trained, layer>>

\* j < end: the row is split into inputs and targets, or i += batchSize
InnerLoop ==
    /\ run.pc = "inner"
    /\ IF run.j < run.end
       THEN \E row \in {run.trainingData[run.j + 1]} :
                run' = [run EXCEPT
                           !.inputs = Slice(row, 1, GetInputSize(nn)),
                           !.targets = Slice(row, GetInputSize(nn) + 1, Len(row)),
                           !.pc = "forward"]
       ELSE run' = [run EXCEPT !.i = NextChunk(run.i, run.batchSize),
                               !.pc = "outer"]
    /\ UNCHANGED <<nn, built, gen, last, trained, layer>>

\* forward(inputs) is entered: resetNetwork()
ForwardReset ==
    /\ run.pc = "forward"
    /\ nn' = ResetNetwork(nn)
    /\ run' = [run EXCEPT !.trace = Append(@, Made("forward", run.j, run.inputs)),
                          !.applied = <<>>,
                          !.pc = "setInputValues"]
    /\ UNCHANGED <<built, gen, last, trained, layer>>

\* inputLayer->setInputValues(inputs); its exception leaves train
ForwardSetInputValues ==
    /\ run.pc = "setInputValues"
    /\ \E r \in {SetInputValues(nn.inputLayer, run.inputs)} :
          IF r.err /= "none"
          THEN /\ last' = [last EXCEPT !.err = r.err]
               /\ run' = [run EXCEPT !.pc = "done"]
               /\ UNCHANGED nn
          ELSE /\ nn' = [nn EXCEPT !.inputLayer = r.layer]
               /\ run' = [run EXCEPT !.pc = "inputForward"]
               /\ UNCHANGED last
    /\ UNCHANGED <<built, gen, trained, layer>>

\* inputLayer->forward()
ForwardInputLayer ==
    /\ run.pc = "inputForward"
    /\ nn' = InputForward(nn)
    /\ run' = [run EXCEPT !.k = 1, !.pc = "hiddenForward"]
    /\ UNCHANGED <<built, gen, last, trained, layer>>

\* the next hidden layer's forward(): first processNodes()
ForwardHiddenProcess ==
    /\ run.pc = "hiddenForward"
    /\ IF run.k > Len(ForwardLayers(nn))
       THEN /\ run' = [run EXCEPT !.pc = "getOutput"]
            /\ UNCHANGED nn
       ELSE \E l \in {ForwardLayers(nn)[run.k]} :
               /\ nn' = [nn EXCEPT !.hiddenLayers[l] = HiddenProcessNodes(@)]
               /\ run' = [run EXCEPT
                             !.applied = Append(@, nn.hiddenLayers[l].id),
                             !.pc = "hiddenPropagate"]
    /\ UNCHANGED <<built, gen, last, trained, layer>>

\* the rest of the hidden layer's forward(): the loop over its edges
ForwardHiddenPropagate ==
    /\ run.pc = "hiddenPropagate"
    /\ \E l \in {ForwardLayers(nn)[run.k]} :
          nn' = PropagateEdges(nn, nn.hiddenLayers[l].edges, 1)
    /\ run' = [run EXCEPT !.k = @ + 1, !.pc = "hiddenForward"]
    /\ UNCHANGED <<built, gen, last, trained, layer>>

\* return outputLayer->getOutput(): processNodes() of the output layer
ForwardGetOutput ==
    /\ run.pc = "getOutput"
    /\ \E o \in {GetOutput(nn)} : nn' = o.nn
    /\ run' = [run EXCEPT !.applied = Append(@, nn.outputLayer.id),
                          !.pc = "calculateLoss"]
    /\ UNCHANGED <<built, gen, last, trained, layer>>

\* float loss = calculateLoss(targets); its exception leaves train
StepCalculateLoss ==
    /\ run.pc = "calculateLoss"
    /\ \E r \in {CalculateLoss(nn, run.targets)} :
          IF r.err /= "none"
          THEN /\ last' = [last EXCEPT !.err = r.err]
               /\ run' = [run EXCEPT !.pc = "done"]
          ELSE /\ run' = [run EXCEPT
                             !.loss = r.loss,
                             !.trace = Append(@, Made("calculateLoss", run.j,
                                                      run.targets)),
                             !.pc = "outputDeltas"]
               /\ UNCHANGED last
    /\ UNCHANGED <<nn, built, gen, trained, layer>>

\* backpropagate(targets, 0.001f) is entered: the output layer's deltas
BackOutputDeltas ==
    /\ run.pc = "outputDeltas"
    /\ nn' = OutputDeltasFrom(nn, run.targets, 1)
    /\ run' = [run EXCEPT
                  !.trace = Append(@, Made("backpropagate", run.j, run.targets)),
                  !.written = LayerNodes(nn.outputLayer),
                  !.read = {},
                  !.k = 1,
                  !.pc = "hiddenDeltas"]
    /\ UNCHANGED <<built, gen, last, trained, layer>>

\* the node loop of the next hidden layer of the backward loop
BackHiddenDeltas ==
    /\ run.pc = "hiddenDeltas"
    /\ IF run.k > Len(BackwardLayers(nn))
       THEN /\ run' = [run EXCEPT !.read = {}, !.pc = "inputDeltas"]
            /\ UNCHANGED nn
       ELSE \E l \in {BackwardLayers(nn)[run.k]} :
               /\ nn' = HiddenDeltasFrom(nn, l, 1)
               /\ run' = [run EXCEPT
                             !.read = SumReads(nn.hiddenLayers[l]),
                             !.written = @ \cup LayerNodes(nn.hiddenLayers[l]),
                             !.k = @ + 1]
    /\ UNCHANGED <<built, gen, last, trained, layer>>

\* the node loop of the input layer
BackInputDeltas ==
    /\ run.pc = "inputDeltas"
    /\ nn' = InputDeltasFrom(nn, 1)
    /\ run' = [run EXCEPT !.read = SumReads(nn.inputLayer),
                          !.written = @ \cup LayerNodes(nn.inputLayer),
                          !.pc = "updateInput"]
    /\ UNCHANGED <<built, gen, last, trained, layer>>

\* applyGradients(learningRate) is entered: updateLayer(inputLayer)
GradientsInputLayer ==
    /\ run.pc = "updateInput"
    /\ nn' = UpdateInputLayer(nn, LearningRate)
    /\ run' = [run EXCEPT !.read = UpdateReads(nn.inputLayer),
                          !.k = 1,
                          !.pc = "updateHidden"]
    /\ UNCHANGED <<built, gen, last, trained, layer>>

\* updateLayer of the next hidden layer
GradientsHiddenLayer ==
    /\ run.pc = "updateHidden"
    /\ IF run.k > Len(ForwardLayers(nn))
       THEN /\ run' = [run EXCEPT !.read = {}, !.pc = "updateOutput"]
            /\ UNCHANGED nn
       ELSE \E l \in {ForwardLayers(nn)[run.k]} :
               /\ nn' = UpdateHiddenLayer(nn, l, LearningRate)
               /\ run' = [run EXCEPT !.read = UpdateReads(nn.hiddenLayers[l]),
                                     !.k = @ + 1]
    /\ UNCHANGED <<built, gen, last, trained, layer>>

\* updateLayer(outputLayer)
GradientsOutputLayer ==
    /\ run.pc = "updateOutput"
    /\ nn' = UpdateOutputLayer(nn, LearningRate)
    /\ run' = [run EXCEPT !.read = LayerNodes(nn.outputLayer),
                          !.pc = "captureDeltas"]
    /\ UNCHANGED <<built, gen, last, trained, layer>>

\* captureDeltas(loss), then ++j
StepCaptureDeltas ==
    /\ run.pc = "captureDeltas"
    /\ nn' = CaptureDeltas(nn, run.loss)
    /\ run' = [run EXCEPT
                  !.trace = Append(@, Made("captureDeltas", run.j, <<>>)),
                  !.read = {},
                  !.j = ToSizeT(@ + 1),
                  !.pc = "inner"]
    /\ UNCHANGED <<built, gen, last, trained, layer>>

NextTrain ==
    \/ EnableDeltaTracking
    \/ TrainBegin
    \/ OuterLoop
    \/ InnerLoop
    \/ ForwardReset
    \/ ForwardSetInputValues
    \/ ForwardInputLayer
    \/ ForwardHiddenProcess
    \/ ForwardHiddenPropagate
    \/ ForwardGetOutput
    \/ StepCalculateLoss
    \/ BackOutputDeltas
    \/ BackHiddenDeltas
    \/ BackInputDeltas
    \/ GradientsInputLayer
    \/ GradientsHiddenLayer
    \/ GradientsOutputLayer
    \/ StepCaptureDeltas

SpecTrain == Init /\ [][NextTrain]_vars

\* train is one synchronous call: once entered, its next statement runs
FairSpecTrain == SpecTrain /\ WF_vars(NextTrain)

-----------------------------------------------------------------------------
(* Construction: networks and stand-alone layers, valid and invalid sizes   *)
(* alike, and attachLayer on a stand-alone layer                            *)

InitConstruction ==
    /\ nn = NoNetwork
    /\ built = "none"
    /\ gen \in Seeds
    /\ last = Call("none", "none")
    /\ trained = 0
    /\ layer = [kind |-> "none", obj |-> NullLayer]
    /\ run = Idle

\* new NeuralNetwork(inputSize, outputSize, hiddenLayerCount)
Construct3 ==
    /\ built = "none"
    /\ \E inputSize \in -1..MaxInputSize, outputSize \in -1..MaxOutputSize,
          hiddenLayerCount \in -1..MaxHiddenLayerCount :
          \E r \in {NeuralNetwork3(inputSize, outputSize, hiddenLayerCount, gen)} :
              /\ nn' = r.nn
              /\ gen' = r.gen
              /\ built' = IF r.err = "none" THEN "ok" ELSE r.err
              /\ last' = [Call("NeuralNetwork3", r.err) EXCEPT
                             !.args = <<inputSize, outputSize, hiddenLayerCount>>]
    /\ UNCHANGED <<trained, layer, run>>

\* new NeuralNetwork(inputSize, outputSize, hiddenLayerCount, hiddenLayerSize)
Construct4 ==
    /\ built = "none"
    /\ \E inputSize \in -1..MaxInputSize, outputSize \in -1..MaxOutputSize,
          hiddenLayerCount \in -1..MaxHiddenLayerCount,
          hiddenLayerSize \in -1..MaxHiddenLayerSize :
          \E r \in {NeuralNetwork4(inputSize, outputSize, hiddenLayerCount,
                                   hiddenLayerSize, gen)} :
              /\ nn' = r.nn
              /\ gen' = r.gen
              /\ built' = IF r.err = "none" THEN "ok" ELSE r.err
              /\ last' = [Call("NeuralNetwork4", r.err) EXCEPT
                             !.args = <<inputSize, outputSize, hiddenLayerCount,
                                        hiddenLayerSize>>]
    /\ UNCHANGED <<trained, layer, run>>

\* the layers a caller may pass as nextLayer: an empty pointer, a base Layer
\* with no nodes, and layers of 1..MaxLayerNodes nodes (two distinct objects
\* of each size)
NextLayers ==
    {NullLayer}
    \cup {[null |-> FALSE, id |-> i, nodes |-> InputInitializeNodes(m),
           edges |-> <<>>] : i \in {1, 2}, m \in 0..MaxLayerNodes}

\* new InputLayer(nodeCount)
ConstructInputLayer ==
    /\ built = "none"
    /\ \E nodeCount \in -1..MaxLayerNodes :
          \E r \in {NewInputLayer(0, nodeCount)} :
              /\ layer' = [kind |-> "input", obj |-> r.layer]
              /\ built' = IF r.err = "none" THEN "ok" ELSE r.err
              /\ last' = [Call("InputLayer", r.err) EXCEPT !.args = <<nodeCount>>]
    /\ UNCHANGED <<nn, gen, trained, run>>

\* new HiddenLayer(nodeCount)
ConstructHiddenLayer ==
    /\ built = "none"
    /\ \E nodeCount \in -1..MaxLayerNodes :
          \E r \in {NewHiddenLayer(0, nodeCount, gen)} :
              /\ layer' = [kind |-> "hidden", obj |-> r.layer]
              /\ gen' = r.gen
              /\ built' = IF r.err = "none" THEN "ok" ELSE r.err
              /\ last' = [Call("HiddenLayer", r.err) EXCEPT !.args = <<nodeCount>>]
    /\ UNCHANGED <<nn, trained, run>>

\* new OutputLayer(nodeCount)
ConstructOutputLayer ==
    /\ built = "none"
    /\ \E nodeCount \in -1..MaxLayerNodes :
          \E r \in {NewOutputLayer(0, nodeCount, gen)} :
              /\ layer' = [kind |-> "output", obj |-> r.layer]
              /\ gen' = r.gen
              /\ built' = IF r.err = "none" THEN "ok" ELSE r.err
              /\ last' = [Call("OutputLayer", r.err) EXCEPT !.args = <<nodeCount>>]
    /\ UNCHANGED <<nn, trained, run>>

\* layer->attachLayer(nextLayer) on an InputLayer or HiddenLayer; the call
\* record keeps the edge count the layer had before the call
DoAttachLayer ==
    /\ built = "ok"
    /\ layer.kind \in {"input", "hidden"}
    /\ \E nextLayer \in NextLayers :
          \E r \in {AttachLayer(layer.obj, nextLayer, gen)} :
              /\ layer' = [layer EXCEPT !.obj = r.layer]
              /\ gen' = r.gen
              /\ last' = [Call("attachLayer", r.err) EXCEPT
                             !.args = nextLayer,
                             !.out = <<Len(layer.obj.edges)>>]
    /\ UNCHANGED <<nn, built, trained, run>>

NextConstruction ==
    \/ Construct3
    \/ Construct4
    \/ ConstructInputLayer
    \/ ConstructHiddenLayer
    \/ ConstructOutputLayer
    \/ DoAttachLayer

SpecConstruction == InitConstruction /\ [][NextConstruction]_vars

-----------------------------------------------------------------------------
(* Properties *)

\* the nodes and edges of a network: every value, bias, delta and weight
Graph(net) == <<net.inputLayer, net.hiddenLayers, net.outputLayer>>

\* C1: calculateLoss returns a finite loss for every expected vector of the
\* right length, whatever values in [0,1] the output nodes hold (exactly 0,
\* exactly 1, or the zeros of a network never run forward)
C1_LossIsFinite ==
    (last.op = "calculateLoss" /\ last.err = "none") => IsFinite(last.loss)

\* C2: a forward call that fails on the length of its input vector leaves
\* every node's value, bias and delta and every edge's weight as they were
C2_FailedForwardKeepsState ==
    [][(last'.op = "forward" /\ last'.err = "invalid_argument")
          => Graph(nn') = Graph(nn)]_vars

\* C3: whatever has been trained, every input-layer node's bias still has
\* the value it was constructed with (0)
C3_InputBiasNeverUpdated ==
    \A i \in 1..Len(nn.inputLayer.nodes) : nn.inputLayer.nodes[i].bias = 0

\* the forward calls a caller may make on net: every pattern, every length
ForwardArgs(net) ==
    {InputVector(n, k) : n \in 0..(GetInputSize(net) + 1), k \in Patterns}

\* C4: the output of a successful forward(x) is a function of x and the
\* weights and biases: repeating forward(x) returns the same output, and so
\* does forward(x) run after any other forward(y) (accepted or rejected)
C4_ForwardDependsOnlyOnInput ==
    [][(last'.op = "forward" /\ last'.err = "none")
          => /\ Forward(nn', last'.args).out = last'.out
             /\ \A y \in ForwardArgs(nn) :
                   Forward(Forward(nn, y).nn, last'.args).out = last'.out]_vars

C4_Witness ==
    /\ last.op = "forward" /\ last.err = "none"
    /\ trained > 0
    /\ nn.hiddenLayers /= <<>>

\* forward, calculateLoss, backpropagate with gradient application, on the
\* rows j, j+1, ... one at a time
RECURSIVE OneAtATime(_, _, _)
OneAtATime(net, trainingData, j) ==
    IF j > Len(trainingData) THEN net
    ELSE Bind(Forward(net, Slice(trainingData[j], 1, GetInputSize(net))).nn,
              LAMBDA f :
         Bind(Backpropagate(f, Slice(trainingData[j], GetInputSize(net) + 1,
                                     Len(trainingData[j])), LearningRate),
              LAMBDA b : OneAtATime(b, trainingData, j + 1)))

\* C5: train leaves the same weights, biases and deltas for every positive
\* batchSize, namely those of processing the samples one at a time in order
C5_BatchSizeIrrelevant ==
    [][(last'.op = "train" /\ last'.err = "none")
          => /\ Graph(nn') = Graph(OneAtATime(nn, last'.args[1], 1))
             /\ \A b \in 1..(MaxBatchSize + 1) :
                   Graph(Train(nn, last'.args[1], b).nn) = Graph(nn')]_vars

C5_Witness ==
    /\ last.op = "train" /\ last.err = "none"
    /\ Len(last.args[1]) >= 2
    /\ last.args[2] = 2
    /\ \E i \in 1..Len(nn.outputLayer.nodes) : nn.outputLayer.nodes[i].delta /= 0

\* C6: forward with a vector of the wrong length throws invalid_argument (not
\* the runtime_error of an uninitialized network), returns no output, and
\* loads nothing of the vector: the network is just the reset one
C6_WrongLengthRejected ==
    [][(last'.op = "forward" /\ Len(last'.args) /= GetInputSize(nn))
          => /\ last'.err = "invalid_argument"
             /\ last'.err /= "runtime_error"
             /\ last'.out = <<>>
             /\ nn' = ResetNetwork(nn)]_vars

C6_Witness ==
    /\ last.op = "forward"
    /\ Len(last.args) = GetInputSize(nn) - 1
    /\ last.err = "invalid_argument"

\* the node counts of the hidden layers
HiddenWidths(net) ==
    {Len(net.hiddenLayers[l].nodes) : l \in 1..Len(net.hiddenLayers)}

\* C7: valid dimensions always construct, the network reports the requested
\* input size, output size and hidden layer count, and every hidden layer has
\* the default width max(1, (in + out) * 2 / 3) >= 1 (three arguments) or the
\* requested width (four arguments)
C7_ConstructedAsRequested ==
    /\ (/\ last.op = "NeuralNetwork3"
        /\ last.args[1] > 0 /\ last.args[2] > 0 /\ last.args[3] >= 0)
       => /\ built = "ok"
          /\ GetInputSize(nn) = last.args[1]
          /\ GetOutputSize(nn) = last.args[2]
          /\ GetHiddenLayerCount(nn) = last.args[3]
          /\ \A w \in HiddenWidths(nn) :
                /\ w >= 1
                /\ w = IF ((last.args[1] + last.args[2]) * 2) \div 3 >= 1
                       THEN ((last.args[1] + last.args[2]) * 2) \div 3
                       ELSE 1
    /\ (/\ last.op = "NeuralNetwork4"
        /\ last.args[1] > 0 /\ last.args[2] > 0 /\ last.args[3] >= 0
        /\ last.args[4] > 0)
       => /\ built = "ok"
          /\ GetInputSize(nn) = last.args[1]
          /\ GetOutputSize(nn) = last.args[2]
          /\ GetHiddenLayerCount(nn) = last.args[3]
          /\ \A w \in HiddenWidths(nn) : w = last.args[4]

C7_Witness ==
    /\ last.op = "NeuralNetwork3"
    /\ built = "ok"
    /\ last.args[1] >= 2
    /\ last.args[3] >= 1

\* C8: invalid dimensions make a constructor throw invalid_argument and leave
\* no object: no network for the network constructors, no layer for the
\* layer constructors
C8_InvalidSizesRejected ==
    /\ (/\ last.op = "NeuralNetwork3"
        /\ (last.args[1] <= 0 \/ last.args[2] <= 0 \/ last.args[3] < 0))
       => (last.err = "invalid_argument" /\ built /= "ok" /\ nn = NoNetwork)
    /\ (/\ last.op = "NeuralNetwork4"
        /\ (last.args[1] <= 0 \/ last.args[2] <= 0 \/ last.args[3] < 0
            \/ last.args[4] <= 0))
       => (last.err = "invalid_argument" /\ built /= "ok" /\ nn = NoNetwork)
    /\ (last.op \in {"InputLayer", "HiddenLayer", "OutputLayer"}
        /\ last.args[1] <= 0)
       => (last.err = "invalid_argument" /\ built /= "ok"
           /\ layer.obj.null /\ layer.obj.nodes = <<>>)

C8_Witness ==
    /\ last.op = "NeuralNetwork4"
    /\ last.args[1] > 0 /\ last.args[2] > 0 /\ last.args[3] = 0
    /\ last.args[4] <= 0
    /\ last.err = "invalid_argument"

\* the layers that own edges, in chain order, and all layers' node counts
EdgeLayers(net) == <<net.inputLayer>> \o net.hiddenLayers

NodeCounts(net) ==
    <<Len(net.inputLayer.nodes)>>
    \o [l \in 1..Len(net.hiddenLayers) |-> Len(net.hiddenLayers[l].nodes)]
    \o <<Len(net.outputLayer.nodes)>>

\* layer number l of the chain (1 is the input layer) is fully connected to
\* layer l+1 and to nothing else, one edge per (source, target) pair
FullyConnected(net, l) ==
    LET edges == EdgeLayers(net)[l].edges
        n == NodeCounts(net)[l]
        m == NodeCounts(net)[l + 1]
    IN  /\ Len(edges) = n * m
        /\ \A k \in 1..Len(edges) :
              /\ edges[k].sourceNode[1] = l - 1
              /\ edges[k].targetNode[1] = l
              /\ edges[k].sourceNode[2] \in 1..n
              /\ edges[k].targetNode[2] \in 1..m
        /\ \A i \in 1..n, j \in 1..m :
              Cardinality({k \in 1..Len(edges) :
                  edges[k].sourceNode = <<l - 1, i>>
                  /\ edges[k].targetNode = <<l, j>>}) = 1

\* C9: after construction the topology never changes: the node counts stay,
\* every non-output layer is fully connected to the next layer (input to
\* output when there is no hidden layer) and the output layer owns no edges
C9_TopologyImmutable ==
    /\ [](/\ \A l \in 1..Len(EdgeLayers(nn)) : FullyConnected(nn, l)
          /\ "edges" \notin DOMAIN nn.outputLayer
          /\ nn.inputLayer.id = 0
          /\ nn.outputLayer.id = Len(nn.hiddenLayers) + 1
          /\ \A l \in 1..Len(nn.hiddenLayers) : nn.hiddenLayers[l].id = l)
    /\ [][NodeCounts(nn') = NodeCounts(nn)]_vars

C9_Witness ==
    /\ last.op = "train"
    /\ trained = MaxTrained
    /\ Len(nn.hiddenLayers) >= 1

\* C10: attachLayer replaces the edges: after a successful call the layer
\* has sourceCount * targetCount edges, all from its own nodes to nodes of
\* the layer just attached; a call with an empty pointer or a layer without
\* nodes throws invalid_argument and leaves the edges as they were
C10_AttachReplaces ==
    [][last'.op = "attachLayer"
          => IF last'.args.null \/ last'.args.nodes = <<>>
             THEN /\ last'.err = "invalid_argument"
                  /\ layer'.obj.edges = layer.obj.edges
             ELSE /\ last'.err = "none"
                  /\ Len(layer'.obj.edges)
                        = Len(layer.obj.nodes) * Len(last'.args.nodes)
                  /\ \A k \in 1..Len(layer'.obj.edges) :
                        /\ layer'.obj.edges[k].targetNode[1] = last'.args.id
                        /\ layer'.obj.edges[k].targetNode[2]
                              \in 1..Len(last'.args.nodes)
                        /\ layer'.obj.edges[k].sourceNode[1] = layer.obj.id]_vars

C10_Witness ==
    /\ last.op = "attachLayer"
    /\ last.err = "none"
    /\ last.out[1] > Len(layer.obj.edges)

\* the network with delta tracking switched the other way
OtherTracking(net) == [net EXCEPT !.trackDeltas = ~@]

\* C11: diagnostics only observe: train leaves the same node values, biases,
\* deltas and edge weights whether delta tracking is enabled or disabled, and
\* exportDeltasToCSV changes no node and no edge
C11_DiagnosticsPassive ==
    [][/\ (last'.op = "train" /\ last'.err = "none")
            => Graph(nn') = Graph(Train(OtherTracking(nn), last'.args[1],
                                        last'.args[2]).nn)
       /\ last'.op = "exportDeltasToCSV" => Graph(nn') = Graph(nn)]_vars

C11_Witness ==
    /\ last.op = "train" /\ last.err = "none"
    /\ nn.trackDeltas
    /\ Len(nn.deltaHistory) = MaxTrained
    /\ \E i \in 1..Len(nn.outputLayer.nodes) : nn.outputLayer.nodes[i].delta /= 0

\* the number of commas in a row of the file
Commas(row) == Cardinality({k \in 1..Len(row) : row[k].t = "comma"})

\* C12: with tracking enabled a train call on n samples appends n snapshots,
\* the k-th being the one the k-th sample leaves; exportDeltasToCSV writes a
\* header row and one row per snapshot of the log, every row with as many
\* commas as the header
C12_SnapshotsAndRows ==
    [][/\ (last'.op = "train" /\ last'.err = "none" /\ nn.trackDeltas)
            => /\ Len(nn'.deltaHistory)
                     = Len(nn.deltaHistory) + Len(last'.args[1])
               /\ SubSeq(nn'.deltaHistory, 1, Len(nn.deltaHistory))
                     = nn.deltaHistory
               /\ \A k \in 1..Len(last'.args[1]) :
                     /\ nn'.deltaHistory[Len(nn.deltaHistory) + k].sample = k - 1
                     /\ nn'.deltaHistory[Len(nn.deltaHistory) + k]
                           = Train(nn, SubSeq(last'.args[1], 1, k), 1)
                                .nn.deltaHistory[Len(nn.deltaHistory) + k]
       /\ (last'.op = "exportDeltasToCSV" /\ last'.err = "none")
            => /\ Len(last'.out) = 1 + Len(nn.deltaHistory)
               /\ \A k \in 2..Len(last'.out) :
                     Commas(last'.out[k]) = Commas(last'.out[1])]_vars

C12_Witness ==
    /\ last.op = "exportDeltasToCSV" /\ last.err = "none"
    /\ Len(nn.deltaHistory) = MaxTrained
    /\ Len(last.out) = MaxTrained + 1
    /\ nn.hiddenLayers = <<>>

\* the fields resetNetwork must not touch: biases and deltas of all nodes,
\* weights and end points of all edges
BiasesDeltasWeights(net) ==
    <<[l \in 1..Len(NodeCounts(net)) |->
          [i \in 1..NodeCounts(net)[l] |->
              <<NodeAt(net, <<l - 1, i>>).bias, NodeAt(net, <<l - 1, i>>).delta>>]],
      [l \in 1..Len(EdgeLayers(net)) |-> EdgeLayers(net)[l].edges]>>

\* C13: resetNetwork zeroes the value of every node of every layer and
\* changes no bias, no delta and no weight
C13_ResetFrame ==
    [][last'.op = "resetNetwork"
          => /\ \A l \in 1..Len(NodeCounts(nn')) :
                   \A i \in 1..NodeCounts(nn')[l] :
                       NodeAt(nn', <<l - 1, i>>).value = 0
             /\ BiasesDeltasWeights(nn') = BiasesDeltasWeights(nn)
             /\ nn'.deltaHistory = nn.deltaHistory]_vars

C13_Witness ==
    /\ last.op = "resetNetwork"
    /\ trained > 0
    /\ nn.hiddenLayers /= <<>>
    /\ \E i \in 1..Len(nn.outputLayer.nodes) : nn.outputLayer.nodes[i].delta /= 0

\* every edge of the network, and every node pointer of the layers whose
\* chain position is at least l
AllEdges(net) ==
    FlattenRows([l \in 1..Len(EdgeLayers(net)) |-> EdgeLayers(net)[l].edges])

NodesFrom(net, l) ==
    UNION {{<<m - 1, i>> : i \in 1..NodeCounts(net)[m]} :
              m \in {m \in 1..Len(NodeCounts(net)) : m - 1 >= l}}

\* the sum, over the edges 1..k of the network that leave node p, of
\* weight * target.delta
RECURSIVE OutgoingSum(_, _, _, _)
OutgoingSum(net, edges, p, k) ==
    IF k = 0 THEN 0
    ELSE OutgoingSum(net, edges, p, k - 1)
         + (IF edges[k].sourceNode = p
            THEN FMul(edges[k].weight, NodeAt(net, edges[k].targetNode).delta)
            ELSE 0)

\* the deltas of all nodes
Deltas(net) ==
    [l \in 1..Len(NodeCounts(net)) |->
        [i \in 1..NodeCounts(net)[l] |-> NodeAt(net, <<l - 1, i>>).delta]]

\* the stored deltas are those of the reference formulas
DeltasAsReference(net, expected) ==
    /\ \A i \in 1..Len(net.outputLayer.nodes) :
          net.outputLayer.nodes[i].delta
             = net.outputLayer.nodes[i].value - expected[i]
    /\ \A l \in 1..Len(net.hiddenLayers) :
          \A i \in 1..Len(net.hiddenLayers[l].nodes) :
              net.hiddenLayers[l].nodes[i].delta
                 = FMul(OutgoingSum(net, AllEdges(net), <<l, i>>,
                                    Len(AllEdges(net))),
                        IF net.hiddenLayers[l].nodes[i].value > 0
                        THEN Scale ELSE Scale \div 100)
    /\ \A i \in 1..Len(net.inputLayer.nodes) :
          net.inputLayer.nodes[i].delta
             = OutgoingSum(net, AllEdges(net), <<0, i>>, Len(AllEdges(net)))

\* C14: when backpropagate has computed the deltas of a sample they are the
\* reference ones: output delta = value - expected, hidden delta = (sum over
\* the node's own outgoing edges of weight * target delta) * leaky-ReLU
\* derivative of the node's value, input delta = that sum; and gradient
\* application and the snapshot leave the deltas as computed
C14_DeltasAsReference ==
    /\ [](run.pc = "updateInput" => DeltasAsReference(nn, run.targets))
    /\ [][run.pc \in {"updateInput", "updateHidden", "updateOutput",
                      "captureDeltas"}
             => Deltas(nn') = Deltas(nn)]_vars

C14_Witness ==
    /\ run.pc = "updateInput"
    /\ run.j = 1
    /\ Len(nn.hiddenLayers) >= 1
    /\ Len(nn.inputLayer.nodes) >= 2
    /\ \E i \in 1..Len(nn.hiddenLayers[1].nodes) :
          nn.hiddenLayers[1].nodes[i].delta /= 0

\* C15: in a backward pass the deltas are assigned layer by layer from the
\* output layer back to the input layer, and every delta read (by the sums
\* and by gradient application) was assigned before in the same pass
C15_BackwardOrder ==
    [][/\ run'.read \subseteq run.written
       /\ run.pc = "outputDeltas"
            => run'.written = NodesFrom(nn, Len(nn.hiddenLayers) + 1)
       /\ (run.pc \in {"hiddenDeltas", "inputDeltas"}
           /\ run'.written /= run.written)
            => \E l \in 0..Len(nn.hiddenLayers) :
                  /\ run.written = NodesFrom(nn, l + 1)
                  /\ run'.written = NodesFrom(nn, l)
       /\ run'.pc = "updateInput" => run'.written = NodesFrom(nn, 0)]_vars

C15_Witness ==
    /\ run.pc = "hiddenDeltas"
    /\ run.k = 3
    /\ run.j = 1
    /\ run.read /= {}

\* the sum, over the edges 1..k of the network that enter node p, of
\* source.value * weight
RECURSIVE IncomingSum(_, _, _, _)
IncomingSum(net, edges, p, k) ==
    IF k = 0 THEN 0
    ELSE IncomingSum(net, edges, p, k - 1)
         + (IF edges[k].targetNode = p
            THEN FMul(NodeAt(net, edges[k].sourceNode).value, edges[k].weight)
            ELSE 0)

\* the layer ids in a sequence of layer ids
Ids(applied) == {applied[k] : k \in 1..Len(applied)}

\* C16: in a forward pass bias and activation are applied to the hidden
\* layers in chain order and then to the output layer, once each and never
\* to the input layer; when they are applied to a node its value is the
\* sum of source.value * weight over its incoming edges, all of whose sources
\* are input nodes or already activated, and the node's new value is the
\* activation of that sum plus the bias
C16_ForwardOrder ==
    /\ [](/\ \A k \in 1..Len(run.applied) : run.applied[k] = k
          /\ run.pc = "calculateLoss"
               => Len(run.applied) = Len(nn.hiddenLayers) + 1)
    /\ [][Len(run'.applied) = Len(run.applied) + 1
             => \A p \in NodesFrom(nn, Len(run'.applied))
                         \ NodesFrom(nn, Len(run'.applied) + 1) :
                   /\ NodeAt(nn, p).value
                         = IncomingSum(nn, AllEdges(nn), p, Len(AllEdges(nn)))
                   /\ \A e \in 1..Len(AllEdges(nn)) :
                         AllEdges(nn)[e].targetNode = p
                            => AllEdges(nn)[e].sourceNode[1]
                                  \in Ids(run.applied) \cup {0}
                   /\ NodeAt(nn', p).value
                         = IF p[1] <= Len(nn.hiddenLayers)
                           THEN ReluF(NodeAt(nn, p).value + NodeAt(nn, p).bias)
                           ELSE SigmoidF(NodeAt(nn, p).value + NodeAt(nn, p).bias)]_vars

C16_Witness ==
    /\ run.pc = "hiddenPropagate"
    /\ run.k = 2
    /\ run.applied = <<1, 2>>
    /\ \E i \in 1..Len(nn.hiddenLayers[2].nodes) :
          nn.hiddenLayers[2].nodes[i].value /= 0

\* the calls train has to make for the rows, in order
ExpectedTrace(trainingData, inputSize) ==
    FlattenRows([s \in 1..Len(trainingData) |->
        <<Made("forward", s - 1, SubSeq(trainingData[s], 1, inputSize)),
          Made("calculateLoss", s - 1,
               SubSeq(trainingData[s], inputSize + 1, Len(trainingData[s]))),
          Made("backpropagate", s - 1,
               SubSeq(trainingData[s], inputSize + 1, Len(trainingData[s]))),
          Made("captureDeltas", s - 1, <<>>)>>])

\* the chunks of n samples for a positive batchSize
ExpectedChunks(n, batchSize) ==
    [c \in 1..((n + batchSize - 1) \div batchSize) |->
        <<(c - 1) * batchSize,
          IF c * batchSize <= n THEN c * batchSize ELSE n>>]

\* C17: for a positive batchSize the calls train makes are, sample after
\* sample in sequence order, forward on the first inputSize scalars of the
\* row, calculateLoss and backpropagate on the remaining scalars, and the
\* snapshot capture; when train returns every sample has had exactly these
\* four calls and the chunks were the contiguous ones of batchSize samples,
\* the last possibly shorter
C17_TrainOrder ==
    (run.pc /= "idle" /\ run.batchSize > 0)
       => /\ Len(run.trace)
                <= Len(ExpectedTrace(run.trainingData, GetInputSize(nn)))
          /\ run.trace
                = SubSeq(ExpectedTrace(run.trainingData, GetInputSize(nn)),
                         1, Len(run.trace))
          /\ (run.pc = "done" /\ last.err = "none")
                => /\ Len(run.trace) = 4 * Len(run.trainingData)
                   /\ run.chunks = ExpectedChunks(Len(run.trainingData),
                                                  run.batchSize)

C17_Witness ==
    /\ run.pc = "done"
    /\ last.err = "none"
    /\ run.batchSize = 1
    /\ Len(run.trainingData) = 2
    /\ Len(run.chunks) = 2
    /\ Len(run.trace) = 8

\* the weights of all edges and the biases of all nodes; the values and
\* deltas of all nodes
WeightsBiases(net) ==
    <<[e \in 1..Len(AllEdges(net)) |-> AllEdges(net)[e].weight],
      [l \in 1..Len(NodeCounts(net)) |->
          [i \in 1..NodeCounts(net)[l] |-> NodeAt(net, <<l - 1, i>>).bias]]>>

ValuesDeltas(net) ==
    [l \in 1..Len(NodeCounts(net)) |->
        [i \in 1..NodeCounts(net)[l] |->
            <<NodeAt(net, <<l - 1, i>>).value, NodeAt(net, <<l - 1, i>>).delta>>]]

\* C18: from the forward pass of a sample until the deltas of all its layers
\* are computed no weight and no bias changes; gradient application then
\* changes no value and no delta, and updates the edges of the layer it is at
\* by weight -= learningRate * source.value * target.delta
C18_DeltasBeforeUpdates ==
    [][/\ run.pc \in {"forward", "setInputValues", "inputForward",
                      "hiddenForward", "hiddenPropagate", "getOutput",
                      "calculateLoss", "outputDeltas", "hiddenDeltas",
                      "inputDeltas"}
            => WeightsBiases(nn') = WeightsBiases(nn)
       /\ run.pc \in {"updateInput", "updateHidden", "updateOutput"}
            => /\ ValuesDeltas(nn') = ValuesDeltas(nn)
               /\ \A e \in 1..Len(AllEdges(nn)) :
                     AllEdges(nn')[e].weight
                        = IF \/ /\ run.pc = "updateInput"
                                /\ AllEdges(nn)[e].sourceNode[1] = 0
                             \/ /\ run.pc = "updateHidden"
                                /\ AllEdges(nn)[e].sourceNode[1] = run.k
                          THEN AllEdges(nn)[e].weight
                               - FMul(FMul(LearningRate,
                                           NodeAt(nn, AllEdges(nn)[e].sourceNode).value),
                                      NodeAt(nn, AllEdges(nn)[e].targetNode).delta)
                          ELSE AllEdges(nn)[e].weight]_vars

C18_Witness ==
    /\ run.pc = "updateOutput"
    /\ Len(nn.hiddenLayers) >= 1
    /\ \E e \in 1..Len(nn.hiddenLayers[1].edges) :
          nn.hiddenLayers[1].edges[e].weight
             /= run.start.hiddenLayers[1].edges[e].weight

\* C19: a train call that was entered returns
C19_TrainTerminates == (run.pc = "outer") ~> (run.pc = "done")

\* a train call that returned without an exception has left the network
\* that train as a whole leaves (batchSize > 0)
StepsRefineTrain ==
    [][(run.pc = "outer" /\ run'.pc = "done" /\ run.batchSize > 0)
          => nn' = Train(run.start, run.trainingData, run.batchSize).nn]_vars

\* with a nonzero batchSize a train call that was entered returns, having
\* made the four calls for every sample once
TerminatesUnlessZero ==
    /\ (run.pc = "outer" /\ run.batchSize /= 0) ~> (run.pc = "done")
    /\ []((run.pc = "done" /\ last.err = "none" /\ run.batchSize /= 0)
             => run.trace = ExpectedTrace(run.trainingData, GetInputSize(nn)))

====
